---- MODULE Spec2Model ----
(***************************************************************************)
(* Co-Investment Portal (platform_lp_app): the deal pipeline of            *)
(* google_sheets_service.py (get_deals), app.py (main: session state,      *)
(* sidebar widgets, filters) and deal_components.py (DealCard,             *)
(* DealMetrics).                                                           *)
(*                                                                         *)
(* Representation.                                                         *)
(*  - A Python str is a sequence of one-character strings, so that strip,  *)
(*    lower-casing and pattern search are computed character by character. *)
(*  - A float is a fixed-point integer counting 1/Scale units; int(x) is   *)
(*    truncation toward zero on that grid.                                 *)
(*  - A sheet cell as returned by worksheet.get_all_records() is a tagged  *)
(*    value: text ("str") or a number ("num"); "nan" is the missing value  *)
(*    pandas produces during coercion.  Cells of the text fields (title,   *)
(*    description, industry, status) are text.                             *)
(*  - A DataFrame is [columns, index, rows]: the column labels in order    *)
(*    (labels may repeat, as in pandas), the row labels, and the rows as   *)
(*    sequences of cells aligned with the columns.                         *)
(***************************************************************************)
EXTENDS Integers, Sequences, FiniteSets, TLC

\* ------------------------------------------------------------------ bounds
\* Largest number of data rows of a sheet.
MaxRows == 2
\* Fixed-point resolution of the modelled floats: units per 1.0.
Scale == 2
\* Number of browser sessions that share the process.
NSessions == 3

\* ------------------------------------------------------------------ values
Str(s) == [k |-> "str", s |-> s, n |-> 0]
Num(n) == [k |-> "num", s |-> <<>>, n |-> n]
NaN == [k |-> "nan", s |-> <<>>, n |-> 0]

\* w + h/Scale as a fixed-point number
Amt(w, h) == w * Scale + h

Range(f) == {f[i] : i \in DOMAIN f}

\* str.strip(): leading and trailing whitespace removed
IsSpace(c) == c = " "

RECURSIVE LStrip(_)
LStrip(s) == IF s # <<>> /\ IsSpace(Head(s)) THEN LStrip(Tail(s)) ELSE s

RECURSIVE RStrip(_)
RStrip(s) ==
    IF s # <<>> /\ IsSpace(s[Len(s)]) THEN RStrip(SubSeq(s, 1, Len(s) - 1)) ELSE s

Strip(s) == RStrip(LStrip(s))

\* decimal digits of numeric text
DigitVal ==
    ("0" :> 0) @@ ("1" :> 1) @@ ("2" :> 2) @@ ("3" :> 3) @@ ("4" :> 4) @@
    ("5" :> 5) @@ ("6" :> 6) @@ ("7" :> 7) @@ ("8" :> 8) @@ ("9" :> 9)

RECURSIVE DigitsValue(_)
DigitsValue(s) ==
    IF s = <<>> THEN 0
    ELSE DigitsValue(SubSeq(s, 1, Len(s) - 1)) * 10 + DigitVal[s[Len(s)]]

IsDigits(s) == s # <<>> /\ \A i \in DOMAIN s : s[i] \in DOMAIN DigitVal

\* pd.to_numeric(..., errors='coerce') on one cell: a number stays; text that
\* is an optionally signed decimal integer parses to that number; the other
\* texts of the model (empty, letters) become NaN.
to_numeric(c) ==
    IF c.k # "str" THEN c
    ELSE IF IsDigits(c.s) THEN Num(DigitsValue(c.s) * Scale)
         ELSE IF c.s # <<>> /\ Head(c.s) = "-" /\ IsDigits(Tail(c.s))
              THEN Num(-(DigitsValue(Tail(c.s)) * Scale))
              ELSE NaN

\* Series.fillna(0)
fillna0(c) == IF c.k = "nan" THEN Num(0) ELSE c

\* ------------------------------------------------------------ data frames
EmptyFrame == [columns |-> <<>>, index |-> <<>>, rows |-> <<>>]

\* pd.DataFrame(records): one column per header, default RangeIndex
DataFrame(sh) ==
    [columns |-> sh.headers,
     index |-> [i \in 1..Len(sh.rows) |-> i - 1],
     rows |-> sh.rows]

ColPos(df, col) == {i \in DOMAIN df.columns : df.columns[i] = col}

HasColumn(df, col) == ColPos(df, col) # {}

\* df[col] is a Series only when the label is unique; with a repeated label
\* it is a DataFrame
IsSeries(df, col) == Cardinality(ColPos(df, col)) = 1

\* the cell of row r (a position) under the uniquely labelled column col
Cell(df, r, col) == df.rows[r][CHOOSE i \in ColPos(df, col) : TRUE]

\* boolean-mask row selection df[mask]: order and row labels are kept
RECURSIVE KeepPositions(_, _, _)
KeepPositions(n, i, keep) ==
    IF i > n THEN <<>>
    ELSE IF i \in keep THEN <<i>> \o KeepPositions(n, i + 1, keep)
         ELSE KeepPositions(n, i + 1, keep)

\* mutant of SelectRows: the kept rows come out last first
SelectRows_Reversed(df, keep) ==
    LET ps == KeepPositions(Len(df.rows), 1, keep)
        n == Len(ps)
    IN [columns |-> df.columns,
        index |-> [j \in DOMAIN ps |-> df.index[ps[n + 1 - j]]],
        rows |-> [j \in DOMAIN ps |-> df.rows[ps[n + 1 - j]]]]

SelectRows(df, keep) ==
    LET ps == KeepPositions(Len(df.rows), 1, keep) IN
    [columns |-> df.columns,
     index |-> [j \in DOMAIN ps |-> df.index[ps[j]]],
     rows |-> [j \in DOMAIN ps |-> df.rows[ps[j]]]]

\* -------------------------------------------------------------- get_deals
column_mapping ==
    ("Title" :> "title") @@ ("title" :> "title") @@
    ("Description" :> "description") @@ ("description" :> "description") @@
    ("Industry" :> "industry") @@ ("industry" :> "industry") @@
    ("Target Amount" :> "target_amount") @@ ("target_amount" :> "target_amount") @@
    ("TargetAmount" :> "target_amount") @@
    ("Raised Amount" :> "raised_amount") @@ ("raised_amount" :> "raised_amount") @@
    ("RaisedAmount" :> "raised_amount") @@
    ("Status" :> "status") @@ ("status" :> "status") @@
    ("Min Investment" :> "min_investment") @@ ("min_investment" :> "min_investment") @@
    ("MinInvestment" :> "min_investment") @@
    ("Due Date" :> "due_date") @@ ("due_date" :> "due_date") @@
    ("DueDate" :> "due_date") @@
    ("Documents Link" :> "documents_link") @@ ("documents_link" :> "documents_link") @@
    ("DocumentsLink" :> "documents_link") @@
    ("Image URL" :> "image_url") @@ ("image_url" :> "image_url") @@
    ("ImageURL" :> "image_url")

\* df.rename(columns=column_mapping): labels in the table are replaced,
\* others kept; nothing prevents two labels from becoming equal
RenameLabel(h) == IF h \in DOMAIN column_mapping THEN column_mapping[h] ELSE h

Rename(df) ==
    [df EXCEPT !.columns = [i \in DOMAIN df.columns |-> RenameLabel(df.columns[i])]]

required_columns ==
    <<"title", "description", "industry", "target_amount", "raised_amount", "status">>

text_columns == {"title", "description", "industry", "status"}

\* mutant of DefaultFor: every synthesized column is filled with 0
DefaultFor_Zero(col) == Num(0)

DefaultFor(col) == IF col \in text_columns THEN Str(<<>>) ELSE Num(0)

AddColumn(df, col, v) ==
    [df EXCEPT !.columns = Append(df.columns, col),
               !.rows = [r \in DOMAIN df.rows |-> Append(df.rows[r], v)]]

RECURSIVE EnsureRequired(_, _)
EnsureRequired(df, cols) ==
    IF cols = <<>> THEN df
    ELSE EnsureRequired(
            IF HasColumn(df, Head(cols)) THEN df
            ELSE AddColumn(df, Head(cols), DefaultFor(Head(cols))),
            Tail(cols))

numeric_columns == <<"target_amount", "raised_amount", "min_investment">>

\* pd.to_numeric raises TypeError when df[col] is a DataFrame
NumericRaises(df) ==
    \E c \in Range(numeric_columns) : HasColumn(df, c) /\ ~IsSeries(df, c)

ConvertNumeric(df) ==
    [df EXCEPT !.rows =
        [r \in DOMAIN df.rows |->
            [i \in DOMAIN df.rows[r] |->
                IF df.columns[i] \in Range(numeric_columns)
                THEN fillna0(to_numeric(df.rows[r][i]))
                ELSE df.rows[r][i]]]]

\* df['title'].str raises AttributeError when df['title'] is a DataFrame
CleanRaises(df) == ~IsSeries(df, "title")

\* mutant of TitleKept: the title is compared with '' without being stripped
TitleKept_NoStrip(c) == c.k # "nan" /\ (c.k = "str" => c.s # <<>>)

\* the row mask of the clean-up: not NaN, and .str.strip() != ''
TitleKept(c) == c.k # "nan" /\ (c.k = "str" => Strip(c.s) # <<>>)

CleanUp(df) ==
    SelectRows(df, {r \in DOMAIN df.rows : TitleKept(Cell(df, r, "title"))})

\* the frame before the clean-up
Normalized(sh) == EnsureRequired(Rename(DataFrame(sh)), required_columns)

get_deals(sh) ==
    IF sh.rows = <<>> THEN [kind |-> "ok", df |-> EmptyFrame]
    ELSE LET d == Normalized(sh) IN
         IF NumericRaises(d) \/ CleanRaises(d)
         THEN [kind |-> "error", df |-> EmptyFrame]
         ELSE [kind |-> "ok", df |-> CleanUp(ConvertNumeric(d))]

\* ---------------------------------------------- the service and its errors
\* no exception
NoError == [type |-> "None", msg |-> <<>>]

\* raise Exception(text): the class of every exception the service raises;
\* msg holds the parts of the text, outermost first
Exception(msg) == [type |-> "Exception", msg |-> msg]

\* except Exception as e: raise Exception(f"{prefix}: {str(e)}")
Wrapped(prefix, e) == Exception(<<prefix>> \o e.msg)

\* the environment of the process: credentials found, GOOGLE_SHEET_URL set,
\* the spreadsheet reachable with those credentials
HealthyEnv == [credentials |-> TRUE, url |-> TRUE, reachable |-> TRUE]

\* no GoogleSheetsService yet; worksheet 0 is self.worksheet = None, a
\* positive worksheet is the handle of the k-th spreadsheet opened
NoService == [created |-> FALSE, worksheet |-> 0]

\* _initialize_client: the only failure modelled is that no credentials
\* are found; gspread.authorize itself sends nothing
initialize_client(e) ==
    IF e.credentials THEN NoError
    ELSE Wrapped("Failed to initialize Google Sheets client",
                 Exception(<<"No Google credentials found">>))

\* get_sheets_service under st.cache_resource: the service is built on the
\* first call that succeeds and returned as it is afterwards; a raising
\* call caches nothing
get_sheets_service(svc, e) ==
    IF svc.created THEN [svc |-> svc, error |-> NoError]
    ELSE IF initialize_client(e) = NoError
         THEN [svc |-> [created |-> TRUE, worksheet |-> 0], error |-> NoError]
         ELSE [svc |-> svc, error |-> initialize_client(e)]

\* connect_to_sheet(): no URL raises; open_by_url / open_by_key and
\* get_worksheet raise gspread's error when the spreadsheet cannot be
\* reached or the credentials are refused; every exception is re-raised as
\* Exception("Failed to connect to Google Sheet: ...")
connect_to_sheet(e) ==
    IF ~e.url
    THEN Wrapped("Failed to connect to Google Sheet",
                 Exception(<<"No Google Sheet URL provided">>))
    ELSE IF ~e.reachable
         THEN Wrapped("Failed to connect to Google Sheet", Exception(<<"APIError">>))
         ELSE NoError

\* "if not self.worksheet: self.connect_to_sheet()": a connection that
\* succeeds opens one more spreadsheet and stores its worksheet handle; opn
\* counts the spreadsheets opened so far
EnsureConnected(svc, e, opn) ==
    IF svc.worksheet # 0 THEN [error |-> NoError, svc |-> svc, opened |-> opn]
    ELSE IF connect_to_sheet(e) # NoError
         THEN [error |-> connect_to_sheet(e), svc |-> svc, opened |-> opn]
         ELSE [error |-> NoError, svc |-> [svc EXCEPT !.worksheet = opn + 1],
               opened |-> opn + 1]

\* get_deals() on the service: connect when self.worksheet is unset, read
\* all records, normalise; every exception is re-raised as
\* Exception("Failed to fetch deals from Google Sheets: ...").  read tells
\* whether get_all_records returned.
FetchDeals(svc, e, opn, sht) ==
    LET c == EnsureConnected(svc, e, opn).error
        svc2 == EnsureConnected(svc, e, opn).svc
        opn2 == EnsureConnected(svc, e, opn).opened
        failed(cause) ==
            [kind |-> "error", df |-> EmptyFrame,
             error |-> Wrapped("Failed to fetch deals from Google Sheets", cause),
             svc |-> svc2, opened |-> opn2, read |-> FALSE]
    IN IF c # NoError THEN failed(c)
       ELSE IF ~e.reachable THEN failed(Exception(<<"APIError">>))
       ELSE IF get_deals(sht).kind = "error"
            THEN [failed(Exception(<<"TypeError">>)) EXCEPT !.read = TRUE]
            ELSE [kind |-> "ok", df |-> get_deals(sht).df, error |-> NoError,
                  svc |-> svc2, opened |-> opn2, read |-> TRUE]

\* the first position of col in headers: headers.index(col) + 1
HeaderIndex(headers, col) ==
    CHOOSE i \in DOMAIN headers :
        headers[i] = col /\ \A j \in DOMAIN headers : headers[j] = col => i <= j

\* the loop of update_deal over deal_data.items(): the header row is read
\* for each item and, when col is one of the headers, the cell of row
\* row_number under it is written; an item whose col is no header is
\* passed over.  Row 1 of the worksheet is the header row, so data row r
\* is row r + 1.
RECURSIVE WriteCells(_, _, _)
WriteCells(sht, row_number, items) ==
    IF items = <<>> THEN sht
    ELSE LET col == Head(items)[1]
             value == Head(items)[2]
             headers == sht.headers
         IN WriteCells(
                IF col \in Range(headers)
                THEN [sht EXCEPT !.rows[row_number - 1][HeaderIndex(headers, col)] = value]
                ELSE sht,
                row_number, Tail(items))

\* update_deal(row_number, deal_data): connect when needed, run the loop,
\* return True; every exception is re-raised as
\* Exception("Failed to update deal in Google Sheets: ...")
update_deal(svc, e, opn, sht, row_number, deal_data) ==
    LET c == EnsureConnected(svc, e, opn)
        failed(cause) ==
            [result |-> "error",
             error |-> Wrapped("Failed to update deal in Google Sheets", cause),
             sheet |-> sht, svc |-> c.svc, opened |-> c.opened]
    IN IF c.error # NoError THEN failed(c.error)
       ELSE IF deal_data # <<>> /\ ~e.reachable THEN failed(Exception(<<"APIError">>))
       ELSE [result |-> "True", error |-> NoError,
             sheet |-> WriteCells(sht, row_number, deal_data),
             svc |-> c.svc, opened |-> c.opened]

\* ------------------------------------------------------- app.py: sidebar
All == <<"A", "l", "l">>

Unique(df, col) == {Cell(df, r, col).s : r \in DOMAIN df.rows}

SeqMin(s) == CHOOSE x \in Range(s) : \A y \in Range(s) : x <= y

SeqMax(s) == CHOOSE x \in Range(s) : \A y \in Range(s) : x >= y

Targets(df) == [r \in DOMAIN df.rows |-> Cell(df, r, "target_amount").n]

\* int(x): truncation toward zero
Trunc(x) == IF x >= 0 THEN (x \div Scale) * Scale ELSE -(((-x) \div Scale) * Scale)

\* "Add 1M as buffer"
Buffer == 1000000

\* not isna().all() and max() > 0 (no target is NaN after fillna)
HasSlider(df) == SeqMax(Targets(df)) > 0

min_amount(df) == Trunc(SeqMin(Targets(df)))

max_amount(df) ==
    LET mx == Trunc(SeqMax(Targets(df))) IN
    IF min_amount(df) >= mx THEN min_amount(df) + Buffer * Scale ELSE mx

NoRange == [none |-> TRUE, lo |-> 0, hi |-> 0]

\* value=(min_amount, max_amount)
DefaultRange(df) ==
    IF HasSlider(df)
    THEN [none |-> FALSE, lo |-> min_amount(df), hi |-> max_amount(df)]
    ELSE NoRange

\* the positions of the slider the model uses: the ends and zero
SliderPoints(df) ==
    {p \in {min_amount(df), max_amount(df), 0} : min_amount(df) <= p /\ p <= max_amount(df)}

\* the ranges the user picks: the default, and each position as a single
\* point (both handles on it)
SliderChoices(df) ==
    IF HasSlider(df)
    THEN {DefaultRange(df)} \cup {[none |-> FALSE, lo |-> p, hi |-> p] : p \in SliderPoints(df)}
    ELSE {NoRange}

\* deals_df['industry'].unique() / deals_df['status'].unique() raise
\* AttributeError when the label is repeated
SidebarRaises(df) == ~IsSeries(df, "industry") \/ ~IsSeries(df, "status")

\* ------------------------------------------------------- app.py: filters
Uppers ==
    <<"A", "B", "C", "D", "E", "F", "G", "H", "I", "J", "K", "L", "M",
      "N", "O", "P", "Q", "R", "S", "T", "U", "V", "W", "X", "Y", "Z">>

Lowers ==
    <<"a", "b", "c", "d", "e", "f", "g", "h", "i", "j", "k", "l", "m",
      "n", "o", "p", "q", "r", "s", "t", "u", "v", "w", "x", "y", "z">>

Lower(c) ==
    IF \E i \in DOMAIN Uppers : Uppers[i] = c
    THEN Lowers[CHOOSE i \in DOMAIN Uppers : Uppers[i] = c]
    ELSE c

\* re.compile(pat) on patterns over letters, space, '.', '*', '(' and '[':
\* an unclosed group or character set, and a '*' with nothing to repeat or
\* after another '*', are errors
CompileRaises(pat) ==
    \E i \in DOMAIN pat :
        \/ pat[i] \in {"(", "["}
        \/ pat[i] = "*" /\ (i = 1 \/ pat[i - 1] = "*")

\* one pattern atom against one character, under re.IGNORECASE
AtomMatches(a, c) == a = "." \/ Lower(a) = Lower(c)

\* the pattern from position i matches the text from position j
RECURSIVE MatchAt(_, _, _, _)
MatchAt(pat, i, txt, j) ==
    IF i > Len(pat) THEN TRUE
    ELSE IF i < Len(pat) /\ pat[i + 1] = "*"
         THEN \/ MatchAt(pat, i + 2, txt, j)
              \/ j <= Len(txt) /\ AtomMatches(pat[i], txt[j]) /\ MatchAt(pat, i, txt, j + 1)
         ELSE j <= Len(txt) /\ AtomMatches(pat[i], txt[j]) /\ MatchAt(pat, i + 1, txt, j + 1)

\* regex.search(x) is not None
RegexSearch(pat, txt) == \E j \in 1..(Len(txt) + 1) : MatchAt(pat, 1, txt, j)

\* Series.str.contains(pat, case=False, na=False) on one cell: regex=True is
\* the default; a non-string cell gives NaN, which na=False turns into False
Contains(c, pat) == c.k = "str" /\ RegexSearch(pat, c.s)

\* the search step raises when the pattern does not compile or when
\* df['description'] is a DataFrame (no .str)
SearchRaises(df, term) ==
    term # <<>> /\ (CompileRaises(term) \/ ~IsSeries(df, "description"))

SearchMask(df, term) ==
    {r \in DOMAIN df.rows :
        Contains(Cell(df, r, "title"), term) \/ Contains(Cell(df, r, "description"), term)}

SearchFilter(df, term) == IF term # <<>> THEN SelectRows(df, SearchMask(df, term)) ELSE df

LowerText(t) == [i \in DOMAIN t |-> Lower(t[i])]

\* mutant of IndustryFilter: the industry is compared ignoring case
IndustryFilter_IgnoreCase(df, sel) ==
    IF sel # All
    THEN SelectRows(df, {r \in DOMAIN df.rows :
            LowerText(Cell(df, r, "industry").s) = LowerText(sel)})
    ELSE df

IndustryFilter(df, sel) ==
    IF sel # All
    THEN SelectRows(df, {r \in DOMAIN df.rows : Cell(df, r, "industry").s = sel})
    ELSE df

\* mutant of StatusFilter: the first deal with the selected status is lost
StatusFilter_DropsFirst(df, sel) ==
    IF sel # All
    THEN LET hit == {r \in DOMAIN df.rows : Cell(df, r, "status").s = sel} IN
         SelectRows(df, {r \in hit : \E q \in hit : q < r})
    ELSE df

StatusFilter(df, sel) ==
    IF sel # All
    THEN SelectRows(df, {r \in DOMAIN df.rows : Cell(df, r, "status").s = sel})
    ELSE df

\* mutant of AmountFilter: the range (0, 0) is taken for "no range"
AmountFilter_ZeroIsUnset(df, rng) ==
    IF ~rng.none /\ ~(rng.lo = 0 /\ rng.hi = 0)
    THEN SelectRows(df, {r \in DOMAIN df.rows :
            Cell(df, r, "target_amount").n >= rng.lo /\ Cell(df, r, "target_amount").n <= rng.hi})
    ELSE df

\* "if amount_range:" is true of every tuple the slider returns, (0, 0) too
AmountFilter(df, rng) ==
    IF ~rng.none
    THEN SelectRows(df, {r \in DOMAIN df.rows :
            Cell(df, r, "target_amount").n >= rng.lo /\ Cell(df, r, "target_amount").n <= rng.hi})
    ELSE df

ApplyFilters(df, term, ind, stat, rng) ==
    AmountFilter(StatusFilter(IndustryFilter(SearchFilter(df, term), ind), stat), rng)

\* df.empty: no rows, or no columns
IsEmpty(df) == df.rows = <<>> \/ df.columns = <<>>

\* ------------------------------------------- deal_components.py: metrics
\* A float that may be non-finite: a reduced fraction num/den (den > 0), or
\* +inf, -inf, nan
XFin(n, d) == [k |-> "fin", num |-> n, den |-> d]
XInf == [k |-> "inf", num |-> 0, den |-> 1]
XNegInf == [k |-> "-inf", num |-> 0, den |-> 1]
XNaN == [k |-> "nan", num |-> 0, den |-> 1]

Abs(x) == IF x < 0 THEN -x ELSE x

RECURSIVE GCD(_, _)
GCD(a, b) == IF b = 0 THEN a ELSE GCD(b, a % b)

\* n/d reduced, d # 0
Frac(n, d) ==
    LET g == GCD(Abs(n), Abs(d))
        sgn == IF d < 0 THEN -1 ELSE 1
    IN XFin(sgn * (n \div g), Abs(d) \div g)

\* a + b over the least common denominator
FracAdd(a, b) ==
    LET g == GCD(a.den, b.den) IN
    Frac(a.num * (b.den \div g) + b.num * (a.den \div g), (a.den \div g) * b.den)

\* float division and "* 100" as pandas computes them on a Series: dividing
\* by zero gives +-inf, 0/0 gives NaN, nothing is raised
SeriesProgress(raised, target) ==
    IF target = 0
    THEN IF raised > 0 THEN XInf ELSE IF raised < 0 THEN XNegInf ELSE XNaN
    ELSE Frac(100 * raised, target)

\* (raised / target) * 100 if target > 0 else 0
progress(raised, target) == IF target > 0 THEN Frac(100 * raised, target) ELSE XFin(0, 1)

RECURSIVE FracSum(_)
FracSum(s) == IF s = <<>> THEN XFin(0, 1) ELSE FracAdd(Head(s), FracSum(Tail(s)))

IsNotNaN(x) == x.k # "nan"

IsFin(x) == x.k = "fin"

\* Series.mean(): NaN entries are skipped; the mean of nothing is NaN, an
\* infinite entry makes the mean infinite, inf + -inf is NaN
Mean(s) ==
    LET v == SelectSeq(s, IsNotNaN) IN
    IF v = <<>> THEN XNaN
    ELSE IF XInf \in Range(v) /\ XNegInf \in Range(v) THEN XNaN
    ELSE IF XInf \in Range(v) THEN XInf
    ELSE IF XNegInf \in Range(v) THEN XNegInf
    ELSE LET t == FracSum(v) IN Frac(t.num, t.den * Len(v))

RECURSIVE SeqSum(_)
SeqSum(s) == IF s = <<>> THEN 0 ELSE Head(s) + SeqSum(Tail(s))

Raised(df) == [r \in DOMAIN df.rows |-> Cell(df, r, "raised_amount").n]

\* nothing rendered: no st.metric, no st.info
NoMetrics ==
    [shown |-> FALSE, info |-> FALSE, total_deals |-> 0, total_target |-> 0,
     total_raised |-> 0, avg_progress |-> XNaN, open_deals |-> 0]

\* st.info("No deals available for metrics."), then return: no metric drawn
NoDealsInfo == [NoMetrics EXCEPT !.info = TRUE]

Open == <<"O", "p", "e", "n">>

render_summary_metrics(df) ==
    IF IsEmpty(df) THEN NoDealsInfo
    ELSE [shown |-> TRUE,
          info |-> FALSE,
          total_deals |-> Len(df.rows),
          total_target |-> SeqSum(Targets(df)),
          total_raised |-> SeqSum(Raised(df)),
          avg_progress |->
              Mean([r \in DOMAIN df.rows |-> SeriesProgress(Raised(df)[r], Targets(df)[r])]),
          open_deals |-> Cardinality({r \in DOMAIN df.rows : Cell(df, r, "status").s = Open})]

\* ------------------------------------------------------ the sheets drawn
Tech == <<"T", "e", "c", "h">>
TechLower == <<"t", "e", "c", "h">>
Fin == <<"F", "i", "n">>
Closed == <<"C", "l", "o", "s", "e", "d">>
OpenLower == <<"o", "p", "e", "n">>

Row(t, d, i, ta, ra, st, mi) ==
    [title |-> Str(t), description |-> Str(d), industry |-> Str(i), target_amount |-> ta,
     raised_amount |-> ra, status |-> Str(st), min_investment |-> mi]

\* {Title: "Ab", Target Amount: "1000", Raised Amount: "500", Status: "Open"}
RowA ==
    Row(<<"A", "b">>, <<"x", ".">>, Tech, Str(<<"1", "0", "0", "0">>),
        Str(<<"5", "0", "0">>), Open, Num(Amt(50, 0)))

\* {Title: "", Target Amount: "200"}
RowNoTitle == Row(<<>>, <<>>, <<>>, Str(<<"2", "0", "0">>), Str(<<>>), <<>>, Str(<<>>))

\* {Title: "B", Target Amount: "bad", Raised Amount: "0", Status: "Closed"}
RowB ==
    Row(<<"B">>, <<"a", "b">>, TechLower, Str(<<"b", "a", "d">>), Str(<<"0">>), Closed,
        Str(<<"b", "a", "d">>))

\* a whitespace-only title
RowSpace == Row(<<" ">>, <<"b">>, Fin, Num(Amt(1000, 0)), Num(Amt(500, 0)), Open, Num(0))

\* the title of RowA again, fractional amounts
RowFrac ==
    Row(<<"A", "b">>, <<"b">>, Tech, Num(Amt(2000, 1)), Num(Amt(1000, 0)), Open,
        Num(Amt(100, 1)))

\* a padded title, negative amounts
RowNeg ==
    Row(<<" ", "B", " ">>, <<"X", "y">>, Fin, Str(<<"-", "5">>), Num(-Amt(5, 0)),
        OpenLower, Num(-Amt(25, 0)))

\* nothing targeted, something raised
RowZero == Row(<<"C">>, <<"a">>, Tech, Num(0), Num(Amt(500, 0)), Closed, Num(Amt(10, 0)))

Rows == {RowA, RowNoTitle, RowB, RowSpace, RowFrac, RowNeg, RowZero}

RowSeqs == UNION {[1..n -> Rows] : n \in 0..MaxRows}

SampleRowSeqs == {<<RowA, RowB>>, <<RowNoTitle, RowNeg>>, <<RowFrac, RowZero>>}

CanonicalFields ==
    {"title", "description", "industry", "target_amount", "raised_amount", "status",
     "min_investment"}

\* the cell of a row under header h; a header outside the table holds a note
CellFor(row, h) ==
    IF RenameLabel(h) \in CanonicalFields THEN row[RenameLabel(h)] ELSE Str(<<"n">>)

MkSheet(headers, rows) ==
    [headers |-> headers,
     rows |-> [r \in DOMAIN rows |-> [i \in DOMAIN headers |-> CellFor(rows[r], headers[i])]]]

FullLayout ==
    <<"Title", "Description", "Industry", "Target Amount", "Raised Amount", "Status",
      "Min Investment">>

\* machine-style names, an unknown column, no min-investment column
MachineLayout ==
    <<"title", "Notes", "description", "industry", "target_amount", "raised_amount", "status">>

\* one header per required field, in mixed styles
MixedHeaders ==
    <<"Title", "description", "Industry", "TargetAmount", "Raised Amount", "status">>

RECURSIVE Pick(_, _)
Pick(hs, fields) ==
    IF hs = <<>> THEN <<>>
    ELSE IF RenameLabel(Head(hs)) \in fields THEN <<Head(hs)>> \o Pick(Tail(hs), fields)
         ELSE Pick(Tail(hs), fields)

\* every sheet that carries only a subset of the required columns
SubsetLayouts == {Pick(MixedHeaders, fs) \o <<"MinInvestment">> : fs \in SUBSET Range(required_columns)}

\* sheets that carry two known variants of one field
AliasLayouts ==
    {<<"Title", "title", "Status">>,
     <<"Title", "Target Amount", "TargetAmount", "Raised Amount">>,
     <<"Title", "Description", "description", "Industry", "Target Amount",
       "Raised Amount", "Status">>,
     <<"title", "Min Investment", "min_investment">>}

Sheets ==
    {MkSheet(FullLayout, rs) : rs \in RowSeqs}
    \cup {MkSheet(l, rs) : l \in {MachineLayout} \cup SubsetLayouts \cup AliasLayouts,
                           rs \in SampleRowSeqs}

\* the texts typed into the search box
SearchTerms ==
    {<<>>, <<"A">>, <<".">>, <<"b", "*">>, <<"(">>, <<"[">>}

\* ------------------------------------------------------------------ state
VARIABLES
    sheet,              \* the spreadsheet: headers and data rows
    deals_data,         \* st.session_state.deals_data
    last_refresh,       \* st.session_state.last_refresh
    load_status,        \* what the last load showed: "none", "ok", "error"
    search_term,        \* the sidebar widgets
    selected_industry,
    selected_status,
    amount_range,
    filtered_df,        \* the filtered frame of the last run
    page,               \* how the last run ended
    metrics,            \* what render_summary_metrics last showed
    env,                \* credentials, sheet URL, reachability
    service,            \* the GoogleSheetsService cached by get_sheets_service
    opened,             \* how many spreadsheets the process has opened
    last_error,         \* the exception main caught in the last load
    last_read,          \* what worksheet.get_all_records() last returned
    update_result,      \* the last update_deal call and how it ended
    pc,                 \* where each concurrent session stands in get_deals
    handle              \* the worksheet handle each such session opened or used

vars ==
    <<sheet, deals_data, last_refresh, load_status, search_term, selected_industry,
      selected_status, amount_range, filtered_df, page, metrics, env, service, opened,
      last_error, last_read, update_result, pc, handle>>

\* the sessions that call get_deals concurrently, and their state
Sessions == 1..NSessions

raceVars == <<pc, handle>>

\* the service side of the state
svcVars == <<env, service, opened, last_error, last_read>>

\* get_all_records() has not returned yet
NoRead == [isNone |-> TRUE, records |-> [headers |-> <<>>, rows |-> <<>>]]

Read(sht) == [isNone |-> FALSE, records |-> sht]

NoneData == [isNone |-> TRUE, df |-> EmptyFrame]

Loaded(df) == [isNone |-> FALSE, df |-> df]

\* no update_deal call yet
NoUpdate == [result |-> "none", error |-> NoError, row_number |-> 0, deal_data |-> <<>>]

\* a fresh process and a fresh session
InitSession ==
    /\ deals_data = NoneData
    /\ last_refresh = "None"
    /\ load_status = "none"
    /\ search_term = <<>>
    /\ selected_industry = All
    /\ selected_status = All
    /\ amount_range = NoRange
    /\ filtered_df = EmptyFrame
    /\ page = "init"
    /\ metrics = NoMetrics
    /\ service = NoService
    /\ opened = 0
    /\ last_error = NoError
    /\ last_read = NoRead
    /\ update_result = NoUpdate
    /\ pc = [t \in Sessions |-> "idle"]
    /\ handle = [t \in Sessions |-> 0]

Init ==
    /\ sheet \in Sheets
    /\ env = HealthyEnv
    /\ InitSession

\* main() from "deals_df = st.session_state.deals_data" on, with the values
\* the sidebar widgets return in this run: the empty-data stop, the sidebar
\* and the filters
RunPage(df, term, ind, stat, rng) ==
    IF IsEmpty(df) \/ SidebarRaises(df)
    THEN /\ page' = IF IsEmpty(df) THEN "stopped" ELSE "error"
         /\ filtered_df' = EmptyFrame
         /\ UNCHANGED <<search_term, selected_industry, selected_status, amount_range>>
    ELSE /\ search_term' = term
         /\ selected_industry' = ind
         /\ selected_status' = stat
         /\ amount_range' = rng
         /\ IF SearchRaises(df, term)
            THEN page' = "error" /\ filtered_df' = EmptyFrame
            ELSE page' = "shown" /\ filtered_df' = ApplyFilters(df, term, ind, stat, rng)

IndustryOptions(df) == {All} \cup Unique(df, "industry")

StatusOptions(df) == {All} \cup Unique(df, "status")

\* a widget keeps its value from run to run while its value is still one it
\* offers, and starts at its default otherwise
Kept(value, offered, default) == IF value \in offered THEN value ELSE default

\* the widgets are drawn: the page got past the stop and the option lists
WidgetsDrawn(df) == ~IsEmpty(df) /\ ~SidebarRaises(df)

\* mutant of SetSearch: the rerun after a search fetches the sheet again
SetSearch_Refetch(term) ==
    /\ ~deals_data.isNone /\ WidgetsDrawn(deals_data.df)
    /\ deals_data' = Loaded(get_deals(sheet).df)
    /\ last_read' = Read(sheet)
    /\ RunPage(deals_data.df, term, selected_industry, selected_status, amount_range)
    /\ metrics' = NoMetrics
    /\ UNCHANGED <<sheet, last_refresh, load_status, env, service, opened, last_error,
                   update_result>>
    /\ UNCHANGED raceVars

\* a run of the page while deals_data is None: the data is loaded first
LoadData ==
    /\ deals_data.isNone
    /\ LET s == get_sheets_service(service, env)
           res == IF s.error = NoError THEN FetchDeals(s.svc, env, opened, sheet)
                  ELSE [kind |-> "error", df |-> EmptyFrame, error |-> s.error,
                        svc |-> s.svc, opened |-> opened, read |-> FALSE]
       IN
       /\ deals_data' = Loaded(res.df)
       /\ load_status' = res.kind
       /\ last_error' = res.error
       /\ service' = res.svc
       /\ opened' = res.opened
       /\ last_read' = IF res.read THEN Read(sheet) ELSE last_read
       /\ IF WidgetsDrawn(res.df)
          THEN RunPage(res.df, search_term,
                       Kept(selected_industry, IndustryOptions(res.df), All),
                       Kept(selected_status, StatusOptions(res.df), All),
                       Kept(amount_range, SliderChoices(res.df), DefaultRange(res.df)))
          ELSE RunPage(res.df, search_term, selected_industry, selected_status, amount_range)
    /\ metrics' = NoMetrics
    /\ UNCHANGED <<sheet, last_refresh, env, update_result>>
    /\ UNCHANGED raceVars

\* the reruns of the page after one widget changed, the data being held
SetSearch(term) ==
    /\ ~deals_data.isNone /\ WidgetsDrawn(deals_data.df)
    /\ RunPage(deals_data.df, term, selected_industry, selected_status, amount_range)
    /\ metrics' = NoMetrics
    /\ UNCHANGED <<sheet, deals_data, last_refresh, load_status, svcVars, update_result>>
    /\ UNCHANGED raceVars

SetIndustry(ind) ==
    /\ ~deals_data.isNone /\ WidgetsDrawn(deals_data.df)
    /\ ind \in IndustryOptions(deals_data.df)
    /\ RunPage(deals_data.df, search_term, ind, selected_status, amount_range)
    /\ metrics' = NoMetrics
    /\ UNCHANGED <<sheet, deals_data, last_refresh, load_status, svcVars, update_result>>
    /\ UNCHANGED raceVars

SetStatus(stat) ==
    /\ ~deals_data.isNone /\ WidgetsDrawn(deals_data.df)
    /\ stat \in StatusOptions(deals_data.df)
    /\ RunPage(deals_data.df, search_term, selected_industry, stat, amount_range)
    /\ metrics' = NoMetrics
    /\ UNCHANGED <<sheet, deals_data, last_refresh, load_status, svcVars, update_result>>
    /\ UNCHANGED raceVars

SetAmountRange(rng) ==
    /\ ~deals_data.isNone /\ WidgetsDrawn(deals_data.df)
    /\ rng \in SliderChoices(deals_data.df)
    /\ RunPage(deals_data.df, search_term, selected_industry, selected_status, rng)
    /\ metrics' = NoMetrics
    /\ UNCHANGED <<sheet, deals_data, last_refresh, load_status, svcVars, update_result>>
    /\ UNCHANGED raceVars

\* the "Refresh Data" button, up to st.rerun()
RefreshData ==
    /\ page # "init"
    /\ deals_data' = NoneData
    /\ last_refresh' = "now"
    /\ page' = "rerun"
    /\ metrics' = NoMetrics
    /\ UNCHANGED <<sheet, load_status, search_term, selected_industry, selected_status,
                   amount_range, filtered_df, svcVars, update_result>>
    /\ UNCHANGED raceVars

\* DealMetrics.render_summary_metrics on the held collection; every rerun of
\* the page clears what was rendered.  It reads deals_data only, so it is
\* explored from the pages whose widgets hold no text and no selection.
RenderSummaryMetrics ==
    /\ ~deals_data.isNone
    /\ load_status = "ok"
    /\ metrics = NoMetrics
    /\ search_term = <<>> /\ selected_industry = All /\ selected_status = All
    /\ metrics' = render_summary_metrics(deals_data.df)
    /\ UNCHANGED <<sheet, deals_data, last_refresh, load_status, search_term,
                   selected_industry, selected_status, amount_range, filtered_df, page,
                   svcVars, update_result>>
    /\ UNCHANGED raceVars

\* the industries, statuses and slider ends any modelled sheet can offer
AllTexts == {All} \cup UNION {{r.industry.s, r.status.s} : r \in Rows}

OfferedRanges ==
    IF WidgetsDrawn(deals_data.df) THEN SliderChoices(deals_data.df) ELSE {}

Next ==
    \/ LoadData
    \/ \E term \in SearchTerms : SetSearch(term)
    \/ \E ind \in AllTexts : SetIndustry(ind)
    \/ \E stat \in AllTexts : SetStatus(stat)
    \/ \E rng \in OfferedRanges : SetAmountRange(rng)
    \/ RefreshData
    \/ RenderSummaryMetrics

Spec == Init /\ [][Next]_vars

\* ------------------------------------------- the sheet while it is in use
\* a caller of the service updates one deal of the sheet
UpdateDeal(row_number, deal_data) ==
    /\ row_number \in 2..(Len(sheet.rows) + 1)
    /\ LET s == get_sheets_service(service, env)
           u == IF s.error = NoError
                THEN update_deal(s.svc, env, opened, sheet, row_number, deal_data)
                ELSE [result |-> "error", error |-> s.error, sheet |-> sheet,
                      svc |-> s.svc, opened |-> opened]
       IN
       /\ sheet' = u.sheet
       /\ service' = u.svc
       /\ opened' = u.opened
       /\ update_result' =
            [result |-> u.result, error |-> u.error, row_number |-> row_number,
             deal_data |-> deal_data]
    /\ UNCHANGED <<deals_data, last_refresh, load_status, search_term, selected_industry,
                   selected_status, amount_range, filtered_df, page, metrics, env,
                   last_error, last_read>>
    /\ UNCHANGED raceVars

\* the spreadsheet of a configured process becomes unreachable, or
\* reachable again
SourceOutage ==
    /\ env.credentials /\ env.url
    /\ env' = [env EXCEPT !.reachable = ~@]
    /\ UNCHANGED <<sheet, deals_data, last_refresh, load_status, search_term,
                   selected_industry, selected_status, amount_range, filtered_df, page,
                   metrics, service, opened, last_error, last_read, update_result>>
    /\ UNCHANGED raceVars

\* the environments a process starts in
Envs ==
    {HealthyEnv,
     [HealthyEnv EXCEPT !.url = FALSE],
     [HealthyEnv EXCEPT !.reachable = FALSE],
     [HealthyEnv EXCEPT !.credentials = FALSE]}

\* the sheets that are updated while the page is in use
LiveSheets ==
    {MkSheet(FullLayout, <<RowA>>), MkSheet(MachineLayout, <<RowFrac>>),
     MkSheet(FullLayout, <<>>)}

\* the texts searched for while the sheet is updated
LiveSearchTerms == {<<>>, <<"A">>}

\* the deal_data of the update_deal calls, as (col, value) items in order
UpdateFields ==
    {<<<<"Status", Str(Closed)>>>>,
     <<<<"status", Str(Closed)>>>>,
     <<<<"Rating", Str(<<"5">>)>>, <<"Status", Str(Closed)>>>>}

InitLive ==
    /\ sheet \in LiveSheets
    /\ env \in Envs
    /\ InitSession

NextLive ==
    \/ LoadData
    \/ \E term \in LiveSearchTerms : SetSearch(term)
    \/ \E ind \in AllTexts : SetIndustry(ind)
    \/ \E stat \in AllTexts : SetStatus(stat)
    \/ \E rng \in OfferedRanges : SetAmountRange(rng)
    \/ RefreshData
    \/ \E row_number \in 2..(MaxRows + 1) : \E deal_data \in UpdateFields :
            UpdateDeal(row_number, deal_data)
    \/ SourceOutage

SpecLive == InitLive /\ [][NextLive]_vars

\* ------------------------------- sessions that share the cached service
\* what a session's step leaves alone: the sheet, the page of the modelled
\* session, the environment
RaceFrame ==
    UNCHANGED <<sheet, deals_data, last_refresh, load_status, search_term,
                selected_industry, selected_status, amount_range, filtered_df, page,
                metrics, env, last_error, update_result>>

\* app.py 306: sheets_service = get_sheets_service(); the cached service is
\* built by the first call
GetService(t) ==
    /\ pc[t] = "idle"
    /\ get_sheets_service(service, env).error = NoError
    /\ service' = get_sheets_service(service, env).svc
    /\ pc' = [pc EXCEPT ![t] = "check"]
    /\ UNCHANGED <<opened, last_read, handle>>
    /\ RaceFrame

\* get_deals line 93: "if not self.worksheet:"
CheckWorksheet(t) ==
    /\ pc[t] = "check"
    /\ pc' = [pc EXCEPT ![t] = IF service.worksheet = 0 THEN "open" ELSE "read"]
    /\ UNCHANGED <<service, opened, last_read, handle>>
    /\ RaceFrame

\* connect_to_sheet lines 57-75: the spreadsheet is opened
OpenSpreadsheet(t) ==
    /\ pc[t] = "open"
    /\ connect_to_sheet(env) = NoError
    /\ opened' = opened + 1
    /\ handle' = [handle EXCEPT ![t] = opened + 1]
    /\ pc' = [pc EXCEPT ![t] = "store"]
    /\ UNCHANGED <<service, last_read>>
    /\ RaceFrame

\* connect_to_sheet line 82: self.worksheet = spreadsheet.get_worksheet(0)
StoreWorksheet(t) ==
    /\ pc[t] = "store"
    /\ service' = [service EXCEPT !.worksheet = handle[t]]
    /\ pc' = [pc EXCEPT ![t] = "read"]
    /\ UNCHANGED <<opened, last_read, handle>>
    /\ RaceFrame

\* get_deals line 97: self.worksheet.get_all_records(), on the handle the
\* service holds at that moment
ReadRecords(t) ==
    /\ pc[t] = "read"
    /\ handle' = [handle EXCEPT ![t] = service.worksheet]
    /\ last_read' = Read(sheet)
    /\ pc' = [pc EXCEPT ![t] = "done"]
    /\ UNCHANGED <<service, opened>>
    /\ RaceFrame

\* get_deals returns; the session fetches again after its next Refresh
Return(t) ==
    /\ pc[t] = "done"
    /\ pc' = [pc EXCEPT ![t] = "idle"]
    /\ UNCHANGED <<service, opened, last_read, handle>>
    /\ RaceFrame

InitRace ==
    /\ sheet \in LiveSheets
    /\ env = HealthyEnv
    /\ InitSession

NextRace ==
    \E t \in Sessions :
        \/ GetService(t)
        \/ CheckWorksheet(t)
        \/ OpenSpreadsheet(t)
        \/ StoreWorksheet(t)
        \/ ReadRecords(t)
        \/ Return(t)

SpecRace == InitRace /\ [][NextRace]_vars

\* ================================================================ claims
\* the held frame
Held == deals_data.df

\* get_deals returned (it did not raise) in the load that filled deals_data
Fetched == ~deals_data.isNone /\ load_status = "ok"

\* f is df restricted to the rows at the positions in keep: same columns, the
\* kept rows' labels in increasing order, every kept row unchanged
IsSelection(f, df, keep) ==
    /\ f.columns = df.columns
    /\ Len(f.index) = Cardinality(keep)
    /\ Len(f.rows) = Len(f.index)
    /\ {f.index[j] : j \in DOMAIN f.index} = {df.index[r] : r \in keep}
    /\ \A j \in DOMAIN f.index : \A k \in DOMAIN f.index : j < k => f.index[j] < f.index[k]
    /\ \A j \in DOMAIN f.index : \A r \in keep : df.index[r] = f.index[j] => f.rows[j] = df.rows[r]

\* the headers of the sheet that the table maps to field
HeadersOf(field) == {i \in DOMAIN sheet.headers : RenameLabel(sheet.headers[i]) = field}

\* no field is carried by two headers
SingleVariant == \A f \in CanonicalFields : Cardinality(HeadersOf(f)) <= 1

\* the title the sheet gives row r: the cell under its title header, if any
RawTitle(r) ==
    IF HeadersOf("title") = {} THEN <<>>
    ELSE sheet.rows[r][CHOOSE i \in HeadersOf("title") : TRUE].s

\* some character is not whitespace
NonBlank(t) == \E i \in DOMAIN t : t[i] # " "

TitledRows == {r \in DOMAIN sheet.rows : NonBlank(RawTitle(r))}

\* C1: whenever get_deals returns, its records are exactly the sheet's rows
\* whose title is non-empty after trimming, one record per such row (rows with
\* equal titles stay separate records), in source row order, and each record
\* carries its row's title.
C1_OneRecordPerTitledRow ==
    Fetched =>
        /\ Len(Held.index) = Cardinality(TitledRows)
        /\ Len(Held.rows) = Len(Held.index)
        /\ {Held.index[j] : j \in DOMAIN Held.index} = {r - 1 : r \in TitledRows}
        /\ \A j \in DOMAIN Held.index : \A k \in DOMAIN Held.index :
                j < k => Held.index[j] < Held.index[k]
        /\ \A j \in DOMAIN Held.index : Cell(Held, j, "title").s = RawTitle(Held.index[j] + 1)

\* C1 witness: a fetch that dropped a whitespace-only title and kept the row
\* after it
C1_Witness ==
    /\ Fetched
    /\ Len(sheet.rows) = 2
    /\ RawTitle(1) = <<" ">>
    /\ Held.index = <<1>>

\* C2 (as claimed): every numeric field of every returned record is a number
\* that is not negative.
C2_NumericNonNegative ==
    Fetched =>
        \A c \in Range(numeric_columns) : HasColumn(Held, c) =>
            \A r \in DOMAIN Held.rows :
                Cell(Held, r, c).k = "num" /\ Cell(Held, r, c).n >= 0

\* the page drew its widgets and ran the filters to the end
Shown == ~deals_data.isNone /\ page = "shown"

\* C3 (as claimed): with no search text, industry All, status All and the
\* slider left at its default, the filtered frame equals the held frame.
C3_DefaultFiltersKeepAll ==
    (/\ Shown
     /\ search_term = <<>>
     /\ selected_industry = All
     /\ selected_status = All
     /\ amount_range = DefaultRange(Held))
        => filtered_df = Held

\* the mean of the per-deal progress, progress being 0 when target_amount <= 0
ClaimedAverage(df) ==
    LET t == FracSum([r \in DOMAIN df.rows |-> progress(Raised(df)[r], Targets(df)[r])])
    IN Frac(t.num, t.den * Len(df.rows))

\* C4 (as claimed): the average progress shown is finite and is the mean of
\* the per-deal progress.
C4_AverageIsMeanOfProgress ==
    metrics.shown =>
        /\ IsFin(metrics.avg_progress)
        /\ metrics.avg_progress = ClaimedAverage(Held)

\* s occurs in txt as a substring, ignoring case
LiteralContains(txt, s) ==
    \E off \in 0..(Len(txt) - Len(s)) :
        \A i \in DOMAIN s : Lower(txt[off + i]) = Lower(s[i])

LiteralHit(df, r, s) ==
    \/ LiteralContains(Cell(df, r, "title").s, s)
    \/ LiteralContains(Cell(df, r, "description").s, s)

\* the rows of df that pass the industry, status and amount predicates
PassesOthers(df) ==
    {r \in DOMAIN df.rows :
        /\ selected_industry = All \/ Cell(df, r, "industry").s = selected_industry
        /\ selected_status = All \/ Cell(df, r, "status").s = selected_status
        /\ amount_range.none \/
           (/\ amount_range.lo <= Cell(df, r, "target_amount").n
            /\ Cell(df, r, "target_amount").n <= amount_range.hi)}

\* C5 (as claimed): on a well-formed frame a page run with any search text
\* ends without error, and a deal passes the search iff the text occurs,
\* ignoring case, in its title or its description.
C5_LiteralSearch ==
    (/\ ~deals_data.isNone
     /\ WidgetsDrawn(Held)
     /\ IsSeries(Held, "description")
     /\ page \in {"shown", "error"})
        => /\ page = "shown"
           /\ IsSelection(filtered_df, Held,
                {r \in PassesOthers(Held) : LiteralHit(Held, r, search_term)})

\* C6: when the filters ran, the filtered frame holds exactly the held deals
\* that pass the search (when text is given) and have the selected industry
\* (unless All) and the selected status (unless All), compared by exact
\* equality, and a target inside the slider's range (when there is a slider),
\* in the held order.
C6_FilterIsConjunction ==
    Shown =>
        IsSelection(filtered_df, Held,
            {r \in PassesOthers(Held) : search_term = <<>> \/ r \in SearchMask(Held, search_term)})

\* C6 witness: text, an industry, a status and a range all chosen, one deal
\* kept and one dropped
C6_Witness ==
    /\ Shown
    /\ search_term # <<>>
    /\ selected_industry # All
    /\ selected_status # All
    /\ ~amount_range.none /\ amount_range # DefaultRange(Held)
    /\ Len(Held.rows) = 2
    /\ Len(filtered_df.rows) = 1

\* the rows that pass the search, the industry and the status predicates
PassesNonAmount(df) ==
    {r \in DOMAIN df.rows :
        /\ search_term = <<>> \/ r \in SearchMask(df, search_term)
        /\ selected_industry = All \/ Cell(df, r, "industry").s = selected_industry
        /\ selected_status = All \/ Cell(df, r, "status").s = selected_status}

InRange(df, r) ==
    /\ amount_range.lo <= Cell(df, r, "target_amount").n
    /\ Cell(df, r, "target_amount").n <= amount_range.hi

RangeApplied ==
    (Shown /\ ~amount_range.none) =>
        IsSelection(filtered_df, Held, {r \in PassesNonAmount(Held) : InRange(Held, r)})

AllTargetsEqual(df) == \A r \in DOMAIN df.rows : Targets(df)[r] = Targets(df)[1]

\* C7 (as claimed): the range of the slider is applied as lo <= target <= hi,
\* and the default range of a collection whose targets are all equal is the
\* single point, not a widened range.
C7_DegenerateDefaultNotWidened ==
    /\ RangeApplied
    /\ (Shown /\ ~amount_range.none /\ AllTargetsEqual(Held)
            /\ amount_range = DefaultRange(Held))
        => amount_range.lo = amount_range.hi

\* C7 (amended): the range the slider returns is applied as lo <= target <=
\* hi, a range with lo = hi included, which keeps the deals at that point
\* only; the default range of a collection whose targets all equal one
\* positive t is not that point but (int(t), int(t) + 1,000,000), as the
\* slider set-up widens it.
C7_RangeAppliedAsSupplied ==
    /\ RangeApplied
    /\ (Shown /\ ~amount_range.none /\ amount_range.lo = amount_range.hi) =>
            \A j \in DOMAIN filtered_df.rows :
                Cell(filtered_df, j, "target_amount").n = amount_range.lo
    /\ (Shown /\ HasSlider(Held) /\ AllTargetsEqual(Held)) =>
            DefaultRange(Held) =
                [none |-> FALSE, lo |-> Trunc(Targets(Held)[1]),
                 hi |-> Trunc(Targets(Held)[1]) + 1000000 * Scale]

\* C7 witness: the range (0, 0) picked on the slider keeps the deal whose
\* target is 0 and drops the other
C7_Witness ==
    /\ Shown
    /\ ~amount_range.none /\ amount_range.lo = 0 /\ amount_range.hi = 0
    /\ Len(Held.rows) = 2
    /\ Len(filtered_df.rows) = 1
    /\ Cell(filtered_df, 1, "target_amount").n = 0

\* C8 (as claimed): every record get_deals returns has a min_investment
\* field holding a number.
C8_MinInvestmentPresent ==
    (Fetched /\ Held.rows # <<>>) =>
        /\ IsSeries(Held, "min_investment")
        /\ \A r \in DOMAIN Held.rows : Cell(Held, r, "min_investment").k = "num"

MissingRequired == {f \in Range(required_columns) : HeadersOf(f) = {}}

\* C9: a sheet with data rows that lacks some of the required columns (and
\* carries no field twice) is fetched without failure; every record has each
\* missing column with its default, '' for a text field and 0 for a numeric
\* one; the default title is what row validity sees, so a sheet without a
\* title column yields no record.
C9_MissingColumnsDefaulted ==
    (~deals_data.isNone /\ SingleVariant /\ MissingRequired # {} /\ sheet.rows # <<>>) =>
        /\ load_status = "ok"
        /\ \A f \in MissingRequired :
            /\ IsSeries(Held, f)
            /\ \A r \in DOMAIN Held.rows :
                Cell(Held, r, f) = IF f \in text_columns THEN Str(<<>>) ELSE Num(0)
        /\ ("title" \in MissingRequired) => (Held.rows = <<>>)
        /\ ("title" \notin MissingRequired) => (Len(Held.rows) = Cardinality(TitledRows))

\* C9 witness: a fetched sheet without description and target columns whose
\* records carry the defaults
C9_Witness ==
    /\ Fetched
    /\ {"description", "target_amount"} \subseteq MissingRequired
    /\ Len(Held.rows) = 2
    /\ Cell(Held, 1, "description") = Str(<<>>)
    /\ Cell(Held, 1, "target_amount") = Num(0)

\* the fields some header of the sheet names
FieldsGiven == {f \in CanonicalFields : HeadersOf(f) # {}}

\* C10 (as claimed): whatever headers the sheet has, the fetch does not fail
\* and every field named by a header of the table is one column of the
\* records, under its canonical name.
C10_AliasesExposed ==
    (~deals_data.isNone /\ sheet.rows # <<>>) =>
        /\ load_status = "ok"
        /\ Held.rows # <<>> => \A f \in FieldsGiven : IsSeries(Held, f)

\* the metrics component ran on the held frame
Summarized == ~deals_data.isNone /\ metrics # NoMetrics

\* C13 (as claimed): summarizing an empty collection yields the metrics
\* count 0, total target 0, total raised 0, average progress 0 and open
\* count 0.
C13_EmptySummaryIsZeros ==
    (Summarized /\ IsEmpty(Held)) =>
        /\ metrics.shown
        /\ metrics.total_deals = 0
        /\ metrics.total_target = 0
        /\ metrics.total_raised = 0
        /\ metrics.avg_progress = XFin(0, 1)
        /\ metrics.open_deals = 0

\* C14: filtering is idempotent: the filters of the page, run again with
\* the same search text, industry, status and range on the frame they
\* produced, give that frame back.
C14_FilterIdempotent ==
    Shown =>
        /\ ~SearchRaises(filtered_df, search_term)
        /\ ApplyFilters(filtered_df, search_term, selected_industry, selected_status,
                        amount_range) = filtered_df

\* C14 witness: a status is selected, a range and a text are set, and the
\* filters kept one of two deals
C14_Witness ==
    /\ Shown
    /\ search_term # <<>>
    /\ selected_status # All
    /\ ~amount_range.none
    /\ Len(Held.rows) = 2
    /\ Len(filtered_df.rows) = 1
    /\ ApplyFilters(filtered_df, search_term, selected_industry, selected_status,
                    amount_range) = filtered_df

\* f holds rows of df, each with its label, in the order df has them
IsSubsequence(f, df) ==
    /\ f.columns = df.columns
    /\ Len(f.rows) = Len(f.index)
    /\ \E pos \in [DOMAIN f.index -> DOMAIN df.index] :
        /\ \A j \in DOMAIN pos : \A k \in DOMAIN pos : j < k => pos[j] < pos[k]
        /\ \A j \in DOMAIN pos :
            f.index[j] = df.index[pos[j]] /\ f.rows[j] = df.rows[pos[j]]

\* the four filter steps of main, numbered in the order main runs them
FilterStep(k, df, term, ind, stat, rng) ==
    CASE k = 1 -> SearchFilter(df, term)
      [] k = 2 -> IndustryFilter(df, ind)
      [] k = 3 -> StatusFilter(df, stat)
      [] k = 4 -> AmountFilter(df, rng)

\* the steps run in the order given
RECURSIVE ApplyInOrder(_, _, _, _, _, _)
ApplyInOrder(order, df, term, ind, stat, rng) ==
    IF order = <<>> THEN df
    ELSE ApplyInOrder(Tail(order), FilterStep(Head(order), df, term, ind, stat, rng),
                      term, ind, stat, rng)

\* every order of the four steps
Orders == {o \in [1..4 -> 1..4] : \A i \in 1..4 : \A j \in 1..4 : i # j => o[i] # o[j]}

\* C15: the filtered frame is a subsequence of the held frame (only held
\* deals, each unchanged, in the held order), and running the four
\* predicates in any other order gives the same frame.
C15_FilterIsStableSubset ==
    Shown =>
        /\ IsSubsequence(filtered_df, Held)
        /\ \A o \in Orders :
            ApplyInOrder(o, Held, search_term, selected_industry, selected_status,
                         amount_range) = filtered_df

\* C15 witness: the filters dropped the first of two held deals and kept the
\* second, with its row label
C15_Witness ==
    /\ Shown
    /\ selected_industry # All \/ selected_status # All \/ search_term # <<>>
    /\ Len(Held.rows) = 2
    /\ filtered_df.rows = <<Held.rows[2]>>
    /\ filtered_df.index = <<Held.index[2]>>

\* the fields of the last update_deal call that are no header of the sheet
\* (update_deal writes data rows only, so the headers are those of the call)
UnknownFields ==
    {update_result.deal_data[i][1] : i \in DOMAIN update_result.deal_data}
        \ Range(sheet.headers)

\* C11 (as claimed): an update_deal call that names a field which is no
\* header of the sheet fails; it does not return True.
C11_UnknownFieldFails ==
    (update_result.result # "none" /\ UnknownFields # {}) => update_result.result = "error"

\* the last load ended in main's except branch
LoadFailed == ~deals_data.isNone /\ load_status = "error"

\* C12 (as claimed): a fetch without a configured source fails with a
\* configuration error, a fetch from an unreachable source with a
\* connectivity error, and the caller receives the two as different kinds
\* of exception.
C12_FailureKindsDistinct ==
    LoadFailed =>
        last_error.type =
            IF ~env.url \/ ~env.credentials THEN "ConfigurationError" ELSE "ConnectivityError"

\* what a page run that loads must leave behind: the live sheet read and
\* normalised when the fetch returns, the empty frame and the exception
\* when it raises
FetchedLive ==
    /\ ~deals_data'.isNone
    /\ (env = HealthyEnv) => load_status' = "ok"
    /\ IF load_status' = "ok"
       THEN /\ last_read' = Read(sheet)
            /\ deals_data'.df = get_deals(sheet).df
            /\ last_error' = NoError
       ELSE /\ deals_data'.df = EmptyFrame
            /\ last_error' # NoError

\* C16: the held collection changes only when a page run finds it unset
\* and fetches, or when Refresh unsets it; a page run that finds it unset
\* fetches, and a fetch that returns holds the sheet as it is at that
\* moment; while a collection is held, be it the empty one left by a failed
\* fetch, nothing is read and no load is attempted, whatever filter changes
\* or becomes of the source.
C16_FetchOnlyWhenUnset ==
    [][/\ (deals_data' # deals_data) => (deals_data.isNone \/ deals_data' = NoneData)
       /\ (~deals_data.isNone /\ deals_data' = NoneData) =>
              (last_refresh' = "now" /\ page' = "rerun")
       /\ (deals_data.isNone /\ page' # page) => FetchedLive
       /\ ~deals_data.isNone =>
              /\ last_read' = last_read
              /\ load_status' = load_status
              /\ last_error' = last_error]_vars

\* C16 witness: the sheet was updated, Refresh was pressed, the next run
\* fetched the updated sheet, and a filter was changed since
C16_Witness ==
    /\ ~deals_data.isNone /\ load_status = "ok"
    /\ last_refresh = "now"
    /\ update_result.result = "True"
    /\ sheet \notin LiveSheets
    /\ last_read = Read(sheet)
    /\ Held = get_deals(sheet).df
    /\ selected_status # All

\* C17 (as claimed): the process opens its spreadsheet at most once, and
\* every session reads through that one worksheet handle.
C17_SingleConnection ==
    /\ opened <= 1
    /\ \A t \in Sessions : pc[t] = "done" => handle[t] = 1

====
